---- MODULE Spec2Model ----
(* Session broadcast hub of the palantir web extension (background script)  *)
(* and the MessageChannel of the client library, as state machines.         *)
EXTENDS Integers, Sequences, FiniteSets, TLC

(* ------------------------------------------------------------------------ *)
(* Bounds                                                                   *)
(* ------------------------------------------------------------------------ *)
NumPorts == 2
MaxSessions == 2
MaxFrames == 3
NumFields == 2

Ports == 1..NumPorts
SessionIds == 1..MaxSessions

(* `let session: Session | null = null` : 0 stands for null.                *)
NoSession == 0

RoomOps == {"createRoom", "joinRoom"}

(* ------------------------------------------------------------------------ *)
(* Values                                                                   *)
(* ------------------------------------------------------------------------ *)
(* The settings record; "" stands for an unset (falsy) field.               *)
OptionValues ==
    {[username |-> "alice", serverUrl |-> "wss://a"],
     [username |-> "", serverUrl |-> "wss://a"],
     [username |-> "alice", serverUrl |-> ""]}

(* No settings stored yet: both fields unset.                               *)
NoOptions == [username |-> "", serverUrl |-> ""]

(* The settings records the options page submits.                           *)
SubmitValues ==
    {[username |-> "alice", serverUrl |-> "wss://a"],
     [username |-> "bob", serverUrl |-> "wss://a"],
     [username |-> "", serverUrl |-> "wss://a"]}

IncompleteOptionsMessage == "Incomplete options. Please use the extension options page to make sure you have a valid server URL and username set."

FailedMessage(op) ==
    CASE op = "createRoom" -> "Failed to create room"
      [] op = "joinRoom" -> "Failed to join room"
      [] OTHER -> "Failed to leave room"

SessionStateMsg(state) ==
    [type |-> "session_state", inRoom |-> state.inRoom,
     roomConnectionStatus |-> state.roomConnectionStatus, message |-> ""]

SessionErrorMsg(message) ==
    [type |-> "session_error", inRoom |-> FALSE,
     roomConnectionStatus |-> "undefined", message |-> message]

VARIABLES
    session,           \* the current-session pointer (NoSession = null)
    constructed,       \* number of Session objects constructed so far
    closeCalls,        \* closeCalls[s]: calls of s.close(...)
    sessStatus,        \* sessStatus[s]: room status of Session s, or "ENDED"
    sessOptions,       \* sessOptions[s]: the settings Session s was built from
    sessionListeners,  \* Sessions that have onSessionUpdate attached
    superseded,        \* Sessions replaced by startSession
    portState,         \* portState[p]: "connected" or "disconnected"
    updateListeners,   \* ports whose updateListener is registered on events
    errorListeners,    \* ports whose errorListener is registered on events
    pending,           \* pending[op]: handlers suspended in await getOptions()
    posted,            \* posted[p]: messages posted to p by the last step
    last,              \* what the last step did
    storage,           \* the settings record in extension storage
    cache,             \* the hub's cached settings: <<>> or <<options>>
    writing,           \* a setOptions write under way: <<>> or <<options>>
    notices,           \* options_changed messages on their way to the hub
    ws,                \* MessageChannel: state of the WebSocket
    wsErrored,         \* MessageChannel: the WebSocket has fired error
    open,              \* MessageChannel: private open flag
    chanEvents,        \* MessageChannel: events dispatched, in order
    frames,            \* MessageChannel: inbound frames received so far
    sent,              \* MessageChannel: frames written to the transport
    chanLast,          \* MessageChannel: what the last step did
    popupState,        \* popup: the state shown by its state container
    popupInit,         \* popup: setInitialState() is still awaiting getOptions()
    popupInbox,        \* messages posted to the popup's port, not yet handled
    popupOutbox,       \* messages the popup posted, not yet handled by the hub
    formMode,          \* form: options.mode, "none" before initForm
    validationState,   \* form: validationState[field]
    disabled           \* form: disabled[e] of each submit element

settingsVars == <<storage, cache, writing, notices>>
hubVars == <<session, constructed, closeCalls, sessStatus, sessOptions,
             sessionListeners, superseded, portState, updateListeners,
             errorListeners, pending, posted, last, settingsVars>>
chanVars == <<ws, wsErrored, open, chanEvents, frames, sent, chanLast>>
popupVars == <<popupState, popupInit, popupInbox, popupOutbox>>
formVars == <<formMode, validationState, disabled>>
vars == <<hubVars, chanVars, popupVars, formVars>>

NoLast ==
    [op |-> "init", port |-> 0, sessionBefore |-> NoSession,
     optionsRead |-> FALSE, username |-> "", serverUrl |-> "",
     constructed |-> NoSession, closed |-> NoSession,
     currentAtClose |-> NoSession, invoked |-> FALSE, invokedOn |-> NoSession,
     statusBefore |-> "undefined", threw |-> FALSE,
     errors |-> 0, failed |-> 0, updates |-> 0, source |-> NoSession]

NoPosts == [p \in Ports |-> <<>>]

(* ------------------------------------------------------------------------ *)
(* Session (palantir-client)                                                *)
(* ------------------------------------------------------------------------ *)
(* A Session whose connection has ended is in the terminal state "ENDED";  *)
(* its snapshot shows no room.                                              *)
SessionGetState(status) ==
    [inRoom |-> status = "IN_ROOM",
     roomConnectionStatus |-> IF status = "ENDED" THEN "NOT_IN_ROOM" ELSE status]

SessionOpStatus(op, status) ==
    IF status = "ENDED" THEN "ENDED"
    ELSE IF op \in RoomOps THEN "JOINING" ELSE "LEAVING"

(* ------------------------------------------------------------------------ *)
(* Hub helpers                                                              *)
(* ------------------------------------------------------------------------ *)
(* stopSession: the Session close is called on (NoSession: no call).        *)
stopSessionNoClose(cur) == NoSession

stopSession(cur) == IF cur = NoSession THEN NoSession ELSE cur

(* startSession: stopSession runs while cur is still the current pointer,   *)
(* then the new Session is assigned and gets the update listener.           *)
startSessionAssignFirst(cur, new) ==
    [closed |-> stopSession(cur), currentAtClose |-> new,
     session |-> new, listener |-> new]

startSession(cur, new) ==
    [closed |-> stopSession(cur), currentAtClose |-> cur,
     session |-> new, listener |-> new]

(* `!options.username || !options.serverUrl`                                *)
OptionsIncompleteBoth(o) == o.username = "" /\ o.serverUrl = ""

OptionsIncomplete(o) == o.username = "" \/ o.serverUrl = ""

(* tryEnsureSession: `if (!session) await startSessionFromOptions()`        *)
tryEnsureSessionNever(cur) == FALSE

tryEnsureSession(cur) == cur = NoSession

getSessionState(cur, status) ==
    IF cur = NoSession
    THEN [inRoom |-> FALSE, roomConnectionStatus |-> "undefined"]
    ELSE SessionGetState(status[cur])

(* onSessionUpdate: dispatches "update" on events, whatever Session fired.  *)
onSessionUpdate(cur, status) == <<SessionStateMsg(getSessionState(cur, status))>>

sendError(message) == <<SessionErrorMsg(message)>>

(* `if (!session) return;` of createRoom / joinRoom                         *)
GuardSession(cur) == cur # NoSession

(* `session?.leaveRoom()` of leaveRoom                                      *)
OptionalCall(cur) == cur # NoSession

(* try { session.op(...) } catch (e) { sendError(...); session = null; }    *)
catchRoomOpKeepSession(op, cur, threw) ==
    [session |-> cur,
     errors |-> IF threw THEN sendError(FailedMessage(op)) ELSE <<>>]

catchRoomOp(op, cur, threw) ==
    [session |-> IF threw THEN NoSession ELSE cur,
     errors |-> IF threw THEN sendError(FailedMessage(op)) ELSE <<>>]

(* postSessionState / postSessionError through the registered listeners.    *)
SubscribedSingleListener(p, msg) ==
    IF msg.type = "session_state"
    THEN p \in updateListeners /\ \A q \in updateListeners : p <= q
    ELSE p \in errorListeners

Subscribed(p, msg) ==
    IF msg.type = "session_state" THEN p \in updateListeners
                                  ELSE p \in errorListeners

Deliver(msgs) ==
    [p \in Ports |-> SelectSeq(msgs, LAMBDA m : Subscribed(p, m))]

CountType(msgs, type) ==
    Cardinality({i \in DOMAIN msgs : msgs[i].type = type})

TotalPending == pending["createRoom"] + pending["joinRoom"]

(* ------------------------------------------------------------------------ *)
(* Initial state                                                            *)
(* ------------------------------------------------------------------------ *)
HubInit ==
    /\ session = NoSession
    /\ constructed = 0
    /\ closeCalls = [s \in SessionIds |-> 0]
    /\ sessStatus = [s \in SessionIds |-> "NOT_IN_ROOM"]
    /\ sessOptions = [s \in SessionIds |-> NoOptions]
    /\ sessionListeners = {}
    /\ superseded = {}
    /\ portState = [p \in Ports |-> "disconnected"]
    /\ updateListeners = {}
    /\ errorListeners = {}
    /\ pending = [op \in RoomOps |-> 0]
    /\ posted = NoPosts
    /\ last = NoLast
    /\ storage = NoOptions
    /\ cache = <<>>
    /\ writing = <<>>
    /\ notices = 0

(* Values of a property of a JavaScript object, by what the schema and the  *)
(* serializer distinguish: the key is absent, or it holds undefined, null,  *)
(* a number, or a string (any other TLA+ string). Nil is msgpack's nil.     *)
Absent == "<absent>"

Undefined == "<undefined>"

Null == "<null>"

Number == "<number>"

Nil == "<nil>"

Obj(t, m, username, api_key, reason, message) ==
    [t |-> t, m |-> m, username |-> username, api_key |-> api_key,
     reason |-> reason, message |-> message]

NoMessage == Obj(Absent, Absent, Absent, Absent, Absent, Absent)

NoFrame == [data |-> "", wellFormed |-> FALSE, bytes |-> NoMessage]

NoChanLast ==
    [op |-> "", frame |-> NoFrame, body |-> NoMessage, wire |-> NoMessage,
     threw |-> FALSE, propagated |-> FALSE, openBefore |-> TRUE,
     lenBefore |-> 0, sentBefore |-> 0, openAtDispatch |-> TRUE]

ChanInit ==
    /\ ws = "connecting"
    /\ wsErrored = FALSE
    /\ open = TRUE
    /\ chanEvents = <<>>
    /\ frames = 0
    /\ sent = 0
    /\ chanLast = NoChanLast

(* No popup page is open.                                                    *)
PopupInit ==
    /\ popupState = "none"
    /\ popupInit = FALSE
    /\ popupInbox = <<>>
    /\ popupOutbox = <<>>

Fields == 1..NumFields

(* form.querySelectorAll(`input[type="submit"], button[type="submit"]`)     *)
SubmitElements == {"HTMLButtonElement", "HTMLInputElement"}

(* A field updateFieldState has not stored a state for yet.                 *)
Untracked == [tracked |-> FALSE, changed |-> FALSE, valid |-> FALSE]

(* initForm has not run.                                                    *)
FormInit ==
    /\ formMode = "none"
    /\ validationState = [f \in Fields |-> Untracked]
    /\ disabled = [e \in SubmitElements |-> FALSE]

Init == HubInit /\ ChanInit /\ PopupInit /\ FormInit

(* ------------------------------------------------------------------------ *)
(* Hub: ports                                                               *)
(* ------------------------------------------------------------------------ *)
(* A port connects. A port id that has disconnected stands for a new port   *)
(* when it connects again.                                                  *)
OnConnect(p) ==
    /\ portState[p] = "disconnected"
    /\ portState' = [portState EXCEPT ![p] = "connected"]
    /\ updateListeners' = updateListeners \cup {p}
    /\ errorListeners' = errorListeners \cup {p}
    /\ posted' = NoPosts
    /\ last' = [NoLast EXCEPT !.op = "onConnect", !.port = p,
                              !.sessionBefore = session]
    /\ UNCHANGED <<session, constructed, closeCalls, sessStatus,
                   sessionListeners, superseded, pending>>
    /\ UNCHANGED <<sessOptions, settingsVars, chanVars>>

OnDisconnectKeepErrorListener(p) ==
    /\ portState[p] = "connected"
    /\ portState' = [portState EXCEPT ![p] = "disconnected"]
    /\ updateListeners' = updateListeners \ {p}
    /\ errorListeners' = errorListeners
    /\ posted' = NoPosts
    /\ last' = [NoLast EXCEPT !.op = "onDisconnect", !.port = p,
                              !.sessionBefore = session]
    /\ UNCHANGED <<session, constructed, closeCalls, sessStatus,
                   sessionListeners, superseded, pending>>
    /\ UNCHANGED <<sessOptions, settingsVars, chanVars>>

OnDisconnect(p) ==
    /\ portState[p] = "connected"
    /\ portState' = [portState EXCEPT ![p] = "disconnected"]
    /\ updateListeners' = updateListeners \ {p}
    /\ errorListeners' = errorListeners \ {p}
    /\ posted' = NoPosts
    /\ last' = [NoLast EXCEPT !.op = "onDisconnect", !.port = p,
                              !.sessionBefore = session]
    /\ UNCHANGED <<session, constructed, closeCalls, sessStatus,
                   sessionListeners, superseded, pending>>
    /\ UNCHANGED <<sessOptions, settingsVars, chanVars>>

(* A port message that fails MessageSchema.parse, or whose type has no case *)
(* in the switch (get_session_state among them): logged, nothing else.      *)
OnIgnoredPortMessage(p, type) ==
    /\ portState[p] = "connected"
    /\ posted' = NoPosts
    /\ last' = [NoLast EXCEPT !.op = type, !.port = p,
                              !.sessionBefore = session]
    /\ UNCHANGED <<session, constructed, closeCalls, sessStatus,
                   sessionListeners, superseded, portState, updateListeners,
                   errorListeners, pending>>
    /\ UNCHANGED <<sessOptions, settingsVars, chanVars>>

OnGetSessionState(p) == OnIgnoredPortMessage(p, "get_session_state")

OnInvalidPortMessage(p) == OnIgnoredPortMessage(p, "invalid")

(* ------------------------------------------------------------------------ *)
(* Hub: room operations                                                     *)
(* ------------------------------------------------------------------------ *)
(* The part of createRoom / joinRoom / leaveRoom after the session has been *)
(* ensured: cur is the current pointer, before are the messages already     *)
(* dispatched on events by this handler, l is the record of the step.       *)
(* A Session operation that returns normally changes the room status and    *)
(* fires the Session's update event.                                        *)
InvokeRoomOp(op, cur, guard, threw, status, before, l) ==
    LET invoked == guard
        rc == catchRoomOp(op, cur, threw)
        status2 == IF invoked /\ ~threw
                   THEN [status EXCEPT ![cur] = SessionOpStatus(op, @)]
                   ELSE status
        after == IF ~invoked THEN <<>>
                 ELSE IF threw THEN rc.errors
                 ELSE IF cur \in sessionListeners' THEN onSessionUpdate(cur, status2)
                 ELSE <<>>
        msgs == before \o after
    IN  /\ session' = IF invoked THEN rc.session ELSE cur
        /\ sessStatus' = status2
        /\ posted' = Deliver(msgs)
        /\ last' = [l EXCEPT !.invoked = invoked,
                             !.invokedOn = IF invoked THEN cur ELSE NoSession,
                             !.statusBefore = IF invoked /\ cur # NoSession
                                              THEN status[cur] ELSE "undefined",
                             !.threw = invoked /\ threw,
                             !.errors = CountType(msgs, "session_error"),
                             !.failed = IF invoked /\ threw THEN Len(rc.errors) ELSE 0,
                             !.updates = CountType(msgs, "session_state"),
                             !.source = IF invoked /\ ~threw THEN cur ELSE NoSession]

(* create_room / join_room arrive on a port: createRoom / joinRoom run up   *)
(* to `await tryEnsureSession()`. With no current session the handler is    *)
(* suspended in getOptions(); with one it goes on to the operation.         *)
(* A suspended handler may construct a Session when it resumes, so it is    *)
(* admitted only while MaxSessions leaves room for that Session.            *)
OnRoomOpMessage(p, op) ==
    /\ portState[p] = "connected"
    /\ IF tryEnsureSession(session)
       THEN /\ TotalPending + constructed < MaxSessions
            /\ pending' = [pending EXCEPT ![op] = @ + 1]
            /\ posted' = NoPosts
            /\ last' = [NoLast EXCEPT !.op = op \o ":suspended",
                                      !.sessionBefore = session]
            /\ UNCHANGED <<session, sessStatus, sessionListeners>>
       ELSE /\ \E threw \in BOOLEAN :
                   /\ sessionListeners' = sessionListeners
                   /\ InvokeRoomOp(op, session, GuardSession(session), threw,
                                   sessStatus, <<>>,
                                   [NoLast EXCEPT !.op = op,
                                                  !.sessionBefore = session])
            /\ UNCHANGED pending
    /\ UNCHANGED <<constructed, closeCalls, superseded, portState,
                   updateListeners, errorListeners>>
    /\ UNCHANGED <<sessOptions, settingsVars, chanVars>>

OnCreateRoom(p) == OnRoomOpMessage(p, "createRoom")

OnJoinRoom(p) == OnRoomOpMessage(p, "joinRoom")

(* getOptions() resolves with the settings record options:                  *)
(* startSessionFromOptions goes on, then tryEnsureSession returns and       *)
(* createRoom / joinRoom run to their end.                                  *)
ResumeRoomOpWith(op, options) ==
    /\ pending[op] > 0
    /\ pending' = [pending EXCEPT ![op] = @ - 1]
    /\ LET complete == ~OptionsIncomplete(options)
           new == constructed + 1
           ss == startSession(session, new)
           cur == IF complete THEN ss.session ELSE session
           closed == IF complete THEN ss.closed ELSE NoSession
           before == IF complete THEN <<>> ELSE sendError(IncompleteOptionsMessage)
       IN  /\ constructed' = IF complete THEN new ELSE constructed
           /\ sessOptions' = IF complete
                             THEN [sessOptions EXCEPT ![new] = options]
                             ELSE sessOptions
           /\ closeCalls' = IF closed \in SessionIds
                            THEN [closeCalls EXCEPT ![closed] = @ + 1]
                            ELSE closeCalls
           /\ superseded' = IF complete /\ session # NoSession
                            THEN superseded \cup {session} ELSE superseded
           /\ sessionListeners' = IF complete
                                  THEN sessionListeners \cup {ss.listener}
                                  ELSE sessionListeners
           /\ \E threw \in BOOLEAN :
                  InvokeRoomOp(op, cur, GuardSession(cur), threw, sessStatus, before,
                      [NoLast EXCEPT !.op = op, !.sessionBefore = session,
                                     !.optionsRead = TRUE,
                                     !.username = options.username,
                                     !.serverUrl = options.serverUrl,
                                     !.constructed = IF complete THEN new ELSE NoSession,
                                     !.closed = closed,
                                     !.currentAtClose = IF closed # NoSession
                                                        THEN ss.currentAtClose
                                                        ELSE NoSession])
    /\ UNCHANGED <<portState, updateListeners, errorListeners>>
    /\ UNCHANGED chanVars

(* The settings record getOptions() resolves with is an input.              *)
ResumeRoomOp(op) ==
    /\ \E options \in OptionValues : ResumeRoomOpWith(op, options)
    /\ UNCHANGED settingsVars

ResumeCreateRoom == ResumeRoomOp("createRoom")

ResumeJoinRoom == ResumeRoomOp("joinRoom")

(* leave_room: leaveRoom() is synchronous; `session?.leaveRoom()` calls     *)
(* nothing when there is no current session.                                *)
OnLeaveRoom(p) ==
    /\ portState[p] = "connected"
    /\ \E threw \in BOOLEAN :
           /\ sessionListeners' = sessionListeners
           /\ InvokeRoomOp("leaveRoom", session, OptionalCall(session), threw,
                           sessStatus, <<>>,
                           [NoLast EXCEPT !.op = "leaveRoom",
                                          !.sessionBefore = session])
    /\ UNCHANGED <<constructed, closeCalls, superseded, portState,
                   updateListeners, errorListeners, pending>>
    /\ UNCHANGED <<sessOptions, settingsVars, chanVars>>

(* ------------------------------------------------------------------------ *)
(* Sessions: events of the Session objects the hub has constructed          *)
(* ------------------------------------------------------------------------ *)
(* Session s changes state and fires its update event. onSessionUpdate is   *)
(* attached to every Session ever started and is never removed.             *)
SessionUpdate(s, kind, status) ==
    LET msgs == IF s \in sessionListeners
                THEN onSessionUpdate(session, status) ELSE <<>>
    IN  /\ sessStatus' = status
        /\ posted' = Deliver(msgs)
        /\ last' = [NoLast EXCEPT !.op = kind, !.sessionBefore = session,
                                  !.source = s,
                                  !.updates = CountType(msgs, "session_state")]
        /\ UNCHANGED <<session, constructed, closeCalls, sessionListeners,
                       superseded, portState, updateListeners, errorListeners,
                       pending>>
        /\ UNCHANGED <<sessOptions, settingsVars, chanVars>>

(* room::create_ack / room::join_ack                                        *)
SessionJoinAck(s) ==
    /\ s \in 1..constructed
    /\ sessStatus[s] = "JOINING"
    /\ SessionUpdate(s, "join_ack", [sessStatus EXCEPT ![s] = "IN_ROOM"])

(* room::leave_ack                                                          *)
SessionLeaveAck(s) ==
    /\ s \in 1..constructed
    /\ sessStatus[s] = "LEAVING"
    /\ SessionUpdate(s, "leave_ack", [sessStatus EXCEPT ![s] = "NOT_IN_ROOM"])

(* connection::closed, or the transport of Session s going away             *)
SessionConnectionClosed(s) ==
    /\ s \in 1..constructed
    /\ sessStatus[s] # "ENDED"
    /\ SessionUpdate(s, "connection_closed", [sessStatus EXCEPT ![s] = "ENDED"])

Next ==
    \/ \E p \in Ports : OnConnect(p) /\ UNCHANGED <<popupVars, formVars>>
    \/ \E p \in Ports : OnDisconnect(p) /\ UNCHANGED <<popupVars, formVars>>
    \/ \E p \in Ports : OnGetSessionState(p) /\ UNCHANGED <<popupVars, formVars>>
    \/ \E p \in Ports : OnInvalidPortMessage(p) /\ UNCHANGED <<popupVars, formVars>>
    \/ \E p \in Ports : OnCreateRoom(p) /\ UNCHANGED <<popupVars, formVars>>
    \/ \E p \in Ports : OnJoinRoom(p) /\ UNCHANGED <<popupVars, formVars>>
    \/ \E p \in Ports : OnLeaveRoom(p) /\ UNCHANGED <<popupVars, formVars>>
    \/ ResumeCreateRoom /\ UNCHANGED <<popupVars, formVars>>
    \/ ResumeJoinRoom /\ UNCHANGED <<popupVars, formVars>>
    \/ \E s \in SessionIds : SessionJoinAck(s) /\ UNCHANGED <<popupVars, formVars>>
    \/ \E s \in SessionIds : SessionLeaveAck(s) /\ UNCHANGED <<popupVars, formVars>>
    \/ \E s \in SessionIds : SessionConnectionClosed(s) /\ UNCHANGED <<popupVars, formVars>>

Spec == Init /\ [][Next]_vars

(* ------------------------------------------------------------------------ *)
(* Settings: the options page, extension storage and the hub's cache        *)
(* ------------------------------------------------------------------------ *)
(* getOptions(): the cached record if there is one, else the stored one,    *)
(* which is then cached.                                                    *)
getOptions(c, stored) == IF c # <<>> THEN c[1] ELSE stored

invalidateCachedOptions == <<>>

SettingsStep(kind) ==
    /\ posted' = NoPosts
    /\ last' = [NoLast EXCEPT !.op = kind, !.sessionBefore = session]
    /\ UNCHANGED <<session, constructed, closeCalls, sessStatus, sessOptions,
                   sessionListeners, superseded, portState, updateListeners,
                   errorListeners, pending>>
    /\ UNCHANGED chanVars

(* Options page onSubmit: setOptions(...) is started and, without waiting   *)
(* for it, options_changed is sent to the background script.                *)
OnSubmit(o) ==
    /\ writing = <<>>
    /\ notices = 0
    /\ o # storage
    /\ writing' = <<o>>
    /\ notices' = notices + 1
    /\ UNCHANGED <<storage, cache>>
    /\ SettingsStep("onSubmit")

(* The write started by setOptions reaches extension storage.               *)
SetOptionsCompletes ==
    /\ writing # <<>>
    /\ storage' = writing[1]
    /\ writing' = <<>>
    /\ UNCHANGED <<cache, notices>>
    /\ SettingsStep("setOptions")

(* browser.runtime.onMessage: options_changed invalidates the cache and     *)
(* does nothing else.                                                       *)
OnOptionsChanged ==
    /\ notices > 0
    /\ notices' = notices - 1
    /\ cache' = invalidateCachedOptions
    /\ UNCHANGED <<storage, writing>>
    /\ SettingsStep("options_changed")

(* getOptions() resolves from the cache or from storage.                    *)
ResumeRoomOpFromSettings(op) ==
    LET options == getOptions(cache, storage)
    IN  /\ ResumeRoomOpWith(op, options)
        /\ cache' = <<options>>
        /\ UNCHANGED <<storage, writing, notices>>

(* The hub as far as the settings reach it: ports connect and send          *)
(* create_room and leave_room, the handlers read the settings.              *)
SettingsNext ==
    \/ \E p \in Ports : OnConnect(p) /\ UNCHANGED <<popupVars, formVars>>
    \/ \E p \in Ports : OnCreateRoom(p) /\ UNCHANGED <<popupVars, formVars>>
    \/ \E p \in Ports : OnLeaveRoom(p) /\ UNCHANGED <<popupVars, formVars>>
    \/ ResumeRoomOpFromSettings("createRoom") /\ UNCHANGED <<popupVars, formVars>>
    \/ \E o \in SubmitValues : OnSubmit(o) /\ UNCHANGED <<popupVars, formVars>>
    \/ SetOptionsCompletes /\ UNCHANGED <<popupVars, formVars>>
    \/ OnOptionsChanged /\ UNCHANGED <<popupVars, formVars>>

SettingsSpec == Init /\ [][SettingsNext]_vars

(* ------------------------------------------------------------------------ *)
(* Popup page                                                               *)
(* ------------------------------------------------------------------------ *)
(* The port browser.runtime.connect({ name: "popup" }) gives the popup.     *)
PopupPort == 1

(* What the hub posted to the popup's port in this step joins the messages  *)
(* on their way to the popup.                                               *)
PortDelivers ==
    /\ popupInbox' = popupInbox \o posted'[PopupPort]
    /\ UNCHANGED <<popupState, popupInit>>

(* The popup script runs: it connects, posts get_session_state and starts   *)
(* setInitialState(), which awaits getOptions(). The state container shows  *)
(* the loading template until a state is set.                               *)
PopupOpen ==
    /\ popupState = "none"
    /\ OnConnect(PopupPort)
    /\ popupState' = "loading"
    /\ popupInit' = TRUE
    /\ popupInbox' = <<>>
    /\ popupOutbox' = <<"get_session_state">>
    /\ UNCHANGED formVars

(* setInitialState() after getOptions() resolved with options; the test is  *)
(* `!options.username || !options.username`.                                *)
setInitialState(options) ==
    IF options.username = "" \/ options.username = ""
    THEN "incomplete_options" ELSE "start_session"

PopupSetInitialState(options) ==
    /\ popupInit
    /\ popupInit' = FALSE
    /\ popupState' = setInitialState(options)
    /\ UNCHANGED <<popupInbox, popupOutbox>>
    /\ UNCHANGED <<hubVars, chanVars>>
    /\ UNCHANGED formVars

(* onSessionStateUpdate(state): the switch on roomConnectionStatus.         *)
onSessionStateUpdate(state, message) ==
    CASE message.roomConnectionStatus = "NOT_IN_ROOM" -> "start_session"
      [] message.roomConnectionStatus = "IN_ROOM" -> "in_room"
      [] message.roomConnectionStatus \in {"JOINING", "LEAVING"} -> "loading"
      [] OTHER -> state

(* port.onMessage listener: the switch on message.type has one case,        *)
(* session_state.                                                           *)
popupOnMessage(state, message) ==
    IF message.type = "session_state"
    THEN onSessionStateUpdate(state, message)
    ELSE state

PopupOnMessage ==
    /\ popupInbox # <<>>
    /\ popupState' = popupOnMessage(popupState, Head(popupInbox))
    /\ popupInbox' = Tail(popupInbox)
    /\ UNCHANGED <<popupInit, popupOutbox>>
    /\ UNCHANGED <<hubVars, chanVars>>
    /\ UNCHANGED formVars

(* The create-room form's onSubmit: posts create_room, shows LOADING. The   *)
(* form is submitted only while the hub can still take the intent within    *)
(* MaxSessions.                                                             *)
PopupSubmitCreateRoom ==
    /\ popupState = "start_session"
    /\ session # NoSession \/ TotalPending + constructed < MaxSessions
    /\ popupOutbox' = Append(popupOutbox, "create_room")
    /\ popupState' = "loading"
    /\ UNCHANGED <<popupInit, popupInbox>>
    /\ UNCHANGED <<hubVars, chanVars>>
    /\ UNCHANGED formVars

(* initInRoom: click on the leave-room button.                              *)
PopupClickLeaveRoom ==
    /\ popupState = "in_room"
    /\ popupOutbox' = Append(popupOutbox, "leave_room")
    /\ popupState' = "loading"
    /\ UNCHANGED <<popupInit, popupInbox>>
    /\ UNCHANGED <<hubVars, chanVars>>
    /\ UNCHANGED formVars

(* initOpenOptionsButton: the click opens the options page and closes the   *)
(* popup window, which disconnects its port.                                *)
PopupOpenOptions ==
    /\ popupState \in {"incomplete_options", "start_session"}
    /\ ~popupInit
    /\ popupOutbox = <<>>
    /\ OnDisconnect(PopupPort)
    /\ popupState' = "none"
    /\ popupInbox' = <<>>
    /\ UNCHANGED <<popupInit, popupOutbox>>
    /\ UNCHANGED formVars

(* The user dismisses the popup window; the page is unloaded and its port   *)
(* disconnects, after the messages already posted on it.                    *)
PopupDismissed ==
    /\ popupState # "none"
    /\ popupOutbox = <<>>
    /\ OnDisconnect(PopupPort)
    /\ popupState' = "none"
    /\ popupInit' = FALSE
    /\ popupInbox' = <<>>
    /\ UNCHANGED popupOutbox
    /\ UNCHANGED formVars

(* The hub's port.onMessage listener takes the popup's next message.        *)
HubTakes(type) ==
    /\ popupOutbox # <<>>
    /\ Head(popupOutbox) = type
    /\ popupOutbox' = Tail(popupOutbox)

HubOnPopupGetSessionState ==
    /\ HubTakes("get_session_state")
    /\ OnGetSessionState(PopupPort)
    /\ PortDelivers
    /\ UNCHANGED formVars

HubOnPopupCreateRoom ==
    /\ HubTakes("create_room")
    /\ OnCreateRoom(PopupPort)
    /\ PortDelivers
    /\ UNCHANGED formVars

HubOnPopupLeaveRoom ==
    /\ HubTakes("leave_room")
    /\ OnLeaveRoom(PopupPort)
    /\ PortDelivers
    /\ UNCHANGED formVars

HubResumeCreateRoom ==
    /\ ResumeCreateRoom
    /\ PortDelivers
    /\ UNCHANGED popupOutbox
    /\ UNCHANGED formVars

HubSessionJoinAck(s) ==
    /\ SessionJoinAck(s)
    /\ PortDelivers
    /\ UNCHANGED popupOutbox
    /\ UNCHANGED formVars

HubSessionLeaveAck(s) ==
    /\ SessionLeaveAck(s)
    /\ PortDelivers
    /\ UNCHANGED popupOutbox
    /\ UNCHANGED formVars

PopupNext ==
    \/ PopupOpen
    \/ \E options \in OptionValues : PopupSetInitialState(options)
    \/ PopupOnMessage
    \/ PopupSubmitCreateRoom
    \/ PopupClickLeaveRoom
    \/ PopupOpenOptions
    \/ PopupDismissed
    \/ HubOnPopupGetSessionState
    \/ HubOnPopupCreateRoom
    \/ HubOnPopupLeaveRoom
    \/ HubResumeCreateRoom
    \/ \E s \in SessionIds : HubSessionJoinAck(s)
    \/ \E s \in SessionIds : HubSessionLeaveAck(s)

PopupSpec == Init /\ [][PopupNext]_vars

(* The handlers of messages and of resolved promises run once they can;     *)
(* the server acknowledges; what the user does is not forced.               *)
PopupFairness ==
    /\ WF_vars(\E options \in OptionValues : PopupSetInitialState(options))
    /\ WF_vars(PopupOnMessage)
    /\ WF_vars(HubOnPopupGetSessionState)
    /\ WF_vars(HubOnPopupCreateRoom)
    /\ WF_vars(HubOnPopupLeaveRoom)
    /\ WF_vars(HubResumeCreateRoom)
    /\ WF_vars(\E s \in SessionIds : HubSessionJoinAck(s))
    /\ WF_vars(\E s \in SessionIds : HubSessionLeaveAck(s))

PopupLiveSpec == PopupSpec /\ PopupFairness

(* ------------------------------------------------------------------------ *)
(* MessageChannel                                                           *)
(* ------------------------------------------------------------------------ *)
Tags == {"connection::login/v1", "connection::login_ack/v1",
         "connection::ping/v1", "connection::closed/v1"}

ConnectionClosedReasons ==
    {"unauthorized", "server_error", "room_closed", "timeout", "unknown"}

(* What evt.data of a WebSocket message event can be. A WebSocket hands a   *)
(* binary frame to its listeners as a Blob or, with binaryType set to       *)
(* "arraybuffer", as an ArrayBuffer; a text frame as a string. Uint8Array   *)
(* is what the listener tests for.                                          *)
DataKinds == {"Uint8Array", "ArrayBuffer", "Blob", "string"}

BinaryKinds == {"Uint8Array", "ArrayBuffer", "Blob"}

IsString(x) == x \notin {Absent, Undefined, Null, Number, Nil}

IsNumber(x) == x = Number

(* z.string().optional(): undefined (or a missing key) or a string.         *)
OptionalString(x) == x \in {Absent, Undefined} \/ IsString(x)

(* MessageBodySchema: discriminated on m, one object schema per tag.        *)
MessageBodySchemaAccepts(v) ==
    CASE v.m = "connection::login/v1" ->
            IsString(v.username) /\ OptionalString(v.api_key)
      [] v.m = "connection::closed/v1" ->
            v.reason \in ConnectionClosedReasons /\ IsString(v.message)
      [] v.m \in {"connection::login_ack/v1", "connection::ping/v1"} -> TRUE
      [] OTHER -> FALSE

(* MessageMetaSchema: t is a number.                                        *)
MessageMetaSchemaAccepts(v) == IsNumber(v.t)

(* MessageSchema = MessageMetaSchema.and(MessageBodySchema)                 *)
MessageSchemaAccepts(v) ==
    MessageMetaSchemaAccepts(v) /\ MessageBodySchemaAccepts(v)

(* What MessageSchema.parse returns for an accepted value: the object       *)
(* schemas strip the keys they do not declare.                              *)
MessageSchemaParse(v) ==
    Obj(v.t, v.m,
        IF v.m = "connection::login/v1" THEN v.username ELSE Absent,
        IF v.m = "connection::login/v1" THEN v.api_key ELSE Absent,
        IF v.m = "connection::closed/v1" THEN v.reason ELSE Absent,
        IF v.m = "connection::closed/v1" THEN v.message ELSE Absent)

(* msgpack.encode of an object: a key holding undefined is written as nil.  *)
MsgpackEncode(v) == [f \in DOMAIN v |-> IF v[f] = Undefined THEN Nil ELSE v[f]]

(* msgpack.decode: nil is read back as null.                                *)
MsgpackDecode(b) == [f \in DOMAIN b |-> IF b[f] = Nil THEN Null ELSE b[f]]

(* private encodeMessage(body): { t: Date.now(), ...body }                  *)
encodeMessage(body) ==
    MsgpackEncode([body EXCEPT !.t = IF body.t = Absent THEN Number ELSE body.t])

(* private decodeMessage(data); ok = FALSE stands for the exception         *)
(* MessageSchema.parse throws.                                              *)
decodeMessage(data) ==
    LET decoded == MsgpackDecode(data)
    IN  IF MessageSchemaAccepts(decoded)
        THEN [ok |-> TRUE, message |-> MessageSchemaParse(decoded)]
        ELSE [ok |-> FALSE, message |-> NoMessage]

(* Message bodies a caller of send can pass (all accepted by                *)
(* MessageBodySchema).                                                      *)
Bodies ==
    { Obj(Absent, "connection::login/v1", "alice", Absent, Absent, Absent),
      Obj(Absent, "connection::login/v1", "alice", "key", Absent, Absent),
      Obj(Absent, "connection::login/v1", "alice", Undefined, Absent, Absent),
      Obj(Absent, "connection::ping/v1", Absent, Absent, Absent, Absent),
      Obj(Absent, "connection::closed/v1", Absent, Absent, "timeout", "bye") }

(* Serialized objects a peer can put on the wire: encodings of valid        *)
(* Messages, and objects with one fault each.                               *)
InboundValues ==
    { encodeMessage(b) : b \in Bodies } \cup
    { Obj(Number, "connection::ping/v1", "extra", Absent, Absent, Absent),
      Obj(Number, "bogus", Absent, Absent, Absent, Absent),
      Obj(Number, Absent, Absent, Absent, Absent, Absent),
      Obj(Absent, "connection::ping/v1", Absent, Absent, Absent, Absent),
      Obj("12", "connection::ping/v1", Absent, Absent, Absent, Absent),
      Obj(Number, "connection::login/v1", Absent, Absent, Absent, Absent),
      Obj(Number, "connection::login/v1", Number, Absent, Absent, Absent),
      Obj(Number, "connection::login/v1", "alice", Number, Absent, Absent),
      Obj(Number, "connection::closed/v1", Absent, Absent, "bogus", "bye"),
      Obj(Number, "connection::closed/v1", Absent, Absent, "timeout", Absent) }

(* Inbound frames: every serialized object as a Uint8Array, one valid       *)
(* encoding in each other form evt.data can take, and bytes that are not    *)
(* msgpack at all (wellFormed = FALSE; msgpack.decode throws).              *)
PingBytes ==
    encodeMessage(Obj(Absent, "connection::ping/v1", Absent, Absent, Absent, Absent))

InboundFrames ==
    { [data |-> "Uint8Array", wellFormed |-> TRUE, bytes |-> b] : b \in InboundValues } \cup
    { [data |-> k, wellFormed |-> TRUE, bytes |-> PingBytes] : k \in DataKinds } \cup
    { [data |-> "Uint8Array", wellFormed |-> FALSE, bytes |-> NoMessage] }

MessageEvent(v) == [type |-> "message", message |-> v]

ClosedEvent == [type |-> "closed", message |-> NoMessage]

ChanStep(op) ==
    [NoChanLast EXCEPT !.op = op, !.openBefore = open,
                       !.lenBefore = Len(chanEvents), !.sentBefore = sent]

(* public isOpen()                                                          *)
isOpen == open

(* private onClosed(): open = false, then the closed event is dispatched;   *)
(* the event's listeners run during dispatchEvent and read open.            *)
onClosedDispatchFirst(op) ==
    /\ open' = FALSE
    /\ chanEvents' = Append(chanEvents, ClosedEvent)
    /\ chanLast' = [ChanStep(op) EXCEPT !.openAtDispatch = open]

onClosed(op) ==
    /\ open' = FALSE
    /\ chanEvents' = Append(chanEvents, ClosedEvent)
    /\ chanLast' = [ChanStep(op) EXCEPT !.openAtDispatch = open']

(* The transport opens; the channel registers no open listener.             *)
WsOpen ==
    /\ ws = "connecting"
    /\ ~wsErrored
    /\ ws' = "open"
    /\ chanLast' = ChanStep("open")
    /\ UNCHANGED <<wsErrored, open, chanEvents, frames, sent>>
    /\ UNCHANGED hubVars

(* The ws "message" listener's outcome for one frame: the Message it        *)
(* dispatches, if any. Every exception of the body is caught and logged.    *)
MessageListenerNoParse(frame) ==
    IF frame.data # "Uint8Array" \/ ~frame.wellFormed
    THEN [ok |-> FALSE, message |-> NoMessage]
    ELSE [ok |-> TRUE, message |-> MsgpackDecode(frame.bytes)]

MessageListener(frame) ==
    IF frame.data # "Uint8Array" \/ ~frame.wellFormed
    THEN [ok |-> FALSE, message |-> NoMessage]
    ELSE decodeMessage(frame.bytes)

(* ws "message" listener                                                    *)
WsMessage(frame) ==
    /\ ws \in {"open", "closing"}
    /\ ~wsErrored
    /\ frames < MaxFrames
    /\ frames' = frames + 1
    /\ LET r == MessageListener(frame)
       IN  chanEvents' = IF r.ok THEN Append(chanEvents, MessageEvent(r.message))
                         ELSE chanEvents
    /\ chanLast' = [ChanStep("message") EXCEPT !.frame = frame]
    /\ UNCHANGED <<ws, wsErrored, open, sent>>
    /\ UNCHANGED hubVars

(* ws "error" listener. A WebSocket fires error at most once, and close     *)
(* follows it.                                                              *)
WsError ==
    /\ ws # "closed"
    /\ ~wsErrored
    /\ wsErrored' = TRUE
    /\ onClosed("error")
    /\ UNCHANGED <<ws, frames, sent>>
    /\ UNCHANGED hubVars

(* ws "close" listener. A WebSocket fires close once.                       *)
WsClose ==
    /\ ws # "closed"
    /\ ws' = "closed"
    /\ onClosed("closeEvent")
    /\ UNCHANGED <<wsErrored, frames, sent>>
    /\ UNCHANGED hubVars

(* public close(): ws.close()                                               *)
ChannelClose ==
    /\ ws \in {"connecting", "open"}
    /\ ws' = "closing"
    /\ chanLast' = ChanStep("close")
    /\ UNCHANGED <<wsErrored, open, chanEvents, frames, sent>>
    /\ UNCHANGED hubVars

(* public send(body): WebSocket.send throws while the socket is connecting, *)
(* writes while it is open, and discards silently once it is closing or     *)
(* closed. propagated: the exception leaves send.                           *)
sendNoCatch(state) ==
    [threw |-> state = "connecting", propagated |-> state = "connecting",
     written |-> state = "open"]

send(state) ==
    [threw |-> state = "connecting", propagated |-> FALSE,
     written |-> state = "open"]

ChannelSend(body) ==
    LET r == send(ws)
    IN  /\ r.written => sent < MaxFrames
        /\ sent' = IF r.written THEN sent + 1 ELSE sent
        /\ chanLast' = [ChanStep("send") EXCEPT !.body = body,
                                               !.wire = encodeMessage(body),
                                               !.threw = r.threw,
                                               !.propagated = r.propagated]
        /\ UNCHANGED <<ws, wsErrored, open, chanEvents, frames>>
        /\ UNCHANGED hubVars

ChannelNext ==
    \/ WsOpen /\ UNCHANGED <<popupVars, formVars>>
    \/ \E frame \in InboundFrames : WsMessage(frame) /\ UNCHANGED <<popupVars, formVars>>
    \/ WsError /\ UNCHANGED <<popupVars, formVars>>
    \/ WsClose /\ UNCHANGED <<popupVars, formVars>>
    \/ ChannelClose /\ UNCHANGED <<popupVars, formVars>>
    \/ \E body \in Bodies : ChannelSend(body) /\ UNCHANGED <<popupVars, formVars>>

ChannelSpec == Init /\ [][ChannelNext]_vars

(* ------------------------------------------------------------------------ *)
(* Forms (initForm)                                                         *)
(* ------------------------------------------------------------------------ *)
(* computeCanSubmit(): every tracked field valid and, in EDIT mode, some    *)
(* tracked field changed.                                                   *)
computeCanSubmit(mode, state) ==
    LET tracked == {f \in Fields : state[f].tracked}
    IN  /\ \A f \in tracked : state[f].valid
        /\ mode = "EDIT" => \E f \in tracked : state[f].changed

(* setSubmitButtonState(), for one submit element e: the element is skipped *)
(* when it is not an HTMLButtonElement or not an HTMLInputElement.          *)
setSubmitButtonState(e, was, canSubmit) ==
    IF e # "HTMLButtonElement" \/ e # "HTMLInputElement"
    THEN was
    ELSE ~canSubmit

(* initForm(options): the submit elements are collected with the disabled  *)
(* attribute the page gave them, and setSubmitButtonState() runs once.      *)
InitForm(mode, attrs) ==
    /\ formMode = "none"
    /\ formMode' = mode
    /\ validationState' = [f \in Fields |-> Untracked]
    /\ disabled' = [e \in SubmitElements |->
                       setSubmitButtonState(e, attrs[e],
                                            computeCanSubmit(mode, validationState'))]
    /\ UNCHANGED <<hubVars, chanVars, popupVars>>

(* updateFieldState(input): validateField gave valid, checkFieldChanged     *)
(* gave changed; the state is stored and setSubmitButtonState() runs.       *)
UpdateFieldState(f, valid, changed) ==
    /\ formMode # "none"
    /\ validationState' = [validationState EXCEPT
                              ![f] = [tracked |-> TRUE, changed |-> changed,
                                      valid |-> valid]]
    /\ disabled' = [e \in SubmitElements |->
                       setSubmitButtonState(e, disabled[e],
                                            computeCanSubmit(formMode, validationState'))]
    /\ UNCHANGED formMode
    /\ UNCHANGED <<hubVars, chanVars, popupVars>>

FormNext ==
    \/ \E mode \in {"SUBMIT", "EDIT"}, attrs \in [SubmitElements -> BOOLEAN] :
           InitForm(mode, attrs)
    \/ \E f \in Fields, valid \in BOOLEAN, changed \in BOOLEAN :
           UpdateFieldState(f, valid, changed)

FormSpec == Init /\ [][FormNext]_vars

(* ------------------------------------------------------------------------ *)
(* Properties                                                               *)
(* ------------------------------------------------------------------------ *)
Complete(l) == l.username # "" /\ l.serverUrl # ""

ErrorsPosted(p, message) ==
    Cardinality({i \in DOMAIN posted[p] : posted[p][i] = SessionErrorMsg(message)})

(* C1: a connected port that sends get_session_state is posted one          *)
(* session_state message carrying the hub's current snapshot, in response.  *)
C1_GetSessionStateAnswered ==
    last.op = "get_session_state" =>
        posted[last.port] = <<SessionStateMsg(getSessionState(session, sessStatus))>>

(* C2 (as stated): when startSession requests close of the old Session, the *)
(* new Session is already the current-session pointer.                      *)
C2_NewCurrentBeforeClose ==
    last.closed # NoSession => last.currentAtClose = last.constructed

(* C2 (amended): in startSession close of the old Session is requested      *)
(* while the old Session is still the current-session pointer; the new      *)
(* Session is constructed and becomes current after that, in the same       *)
(* synchronous call.                                                        *)
C2_CloseBeforeNewCurrent ==
    last.closed # NoSession =>
        /\ last.currentAtClose = last.closed
        /\ last.closed = last.sessionBefore
        /\ last.constructed = constructed
        /\ last.constructed # last.closed
        /\ session \in {last.constructed, NoSession}
        /\ (~last.threw => session = last.constructed)

C2_Witness ==
    /\ last.closed # NoSession
    /\ last.currentAtClose = last.closed
    /\ session = last.constructed

(* C3: an update fired by a superseded Session posts no session_state       *)
(* message to any port.                                                     *)
C3_NoEventsFromSuperseded ==
    (last.source \in superseded /\ last.source # session) =>
        /\ last.updates = 0
        /\ \A p \in Ports : posted[p] = <<>>

C5_ClosedAtMostOnce ==
    Cardinality({i \in DOMAIN chanEvents : chanEvents[i].type = "closed"}) <= 1

(* C6: when the connection of the current Session ends, exactly one error   *)
(* event is raised and posted as session_error to every connected port.     *)
C6_ConnectionEndRaisesError ==
    (last.op = "connection_closed" /\ last.source = session) =>
        /\ last.errors = 1
        /\ \A p \in errorListeners :
               CountType(posted[p], "session_error") = 1

(* C7: when session.createRoom / joinRoom / leaveRoom throws inside the hub *)
(* handler, the hub has no current session afterwards and exactly one error *)
(* event for that failure has been dispatched to the observers.             *)
C7_ThrowInvalidatesSession ==
    last.threw =>
        /\ session = NoSession
        /\ last.failed = 1
        /\ \A p \in Ports :
               ErrorsPosted(p, FailedMessage(last.op)) =
                   IF p \in errorListeners THEN 1 ELSE 0

C7_Witness ==
    /\ last.threw
    /\ last.invokedOn # NoSession
    /\ session = NoSession
    /\ \E p \in Ports : ErrorsPosted(p, FailedMessage(last.op)) = 1

(* C8: a create_room / join_room handler that finds no current session and *)
(* settings without username or server URL constructs no Session, leaves    *)
(* the pointer empty, invokes no room operation and dispatches exactly one  *)
(* error event, with the readable message.                                  *)
C8_IncompleteOptionsNoSession ==
    (last.optionsRead /\ last.sessionBefore = NoSession /\ ~Complete(last)) =>
        /\ last.constructed = NoSession
        /\ last.closed = NoSession
        /\ session = NoSession
        /\ ~last.invoked
        /\ last.errors = 1
        /\ last.updates = 0
        /\ \A p \in Ports :
               posted[p] = IF p \in errorListeners
                           THEN <<SessionErrorMsg(IncompleteOptionsMessage)>>
                           ELSE <<>>

C8_Witness ==
    /\ last.optionsRead
    /\ last.sessionBefore = NoSession
    /\ last.username = ""
    /\ last.errors = 1
    /\ \E p \in Ports : posted[p] = <<SessionErrorMsg(IncompleteOptionsMessage)>>

(* C9 (as stated): every room operation, leave included, ends up invoked on *)
(* a current session when the credentials are complete.                     *)
C9_EveryOpEnsuresSession ==
    (/\ last.op \in RoomOps \cup {"leaveRoom"}
     /\ last.optionsRead => Complete(last)) =>
        last.invoked /\ last.invokedOn # NoSession

(* C9 (amended): createRoom and joinRoom first guarantee a current session, *)
(* constructing one from the configured credentials when none was current   *)
(* as the intent arrived, and with complete credentials the operation is    *)
(* invoked on a non-empty current session; leaveRoom constructs no Session  *)
(* and with no current session invokes nothing.                             *)
C9_CreateJoinEnsureSession ==
    /\ (last.op \in RoomOps /\ (last.optionsRead => Complete(last))) =>
           /\ last.invoked
           /\ last.optionsRead => last.constructed = last.invokedOn
           /\ ~last.optionsRead => last.sessionBefore = last.invokedOn
    /\ last.invoked =>
           /\ last.invokedOn # NoSession
           /\ ~last.threw => session = last.invokedOn
    /\ last.op = "leaveRoom" =>
           /\ last.constructed = NoSession
           /\ last.invoked <=> last.sessionBefore # NoSession

C9_Witness ==
    /\ last.op \in RoomOps
    /\ last.optionsRead
    /\ last.sessionBefore = NoSession
    /\ last.constructed # NoSession
    /\ last.invokedOn = last.constructed
    /\ session = last.constructed

(* C10: no createRoom / joinRoom is invoked on a Session that has a create  *)
(* or join attempt outstanding.                                             *)
C10_NoConcurrentAttempts ==
    ~(last.op \in RoomOps /\ last.invoked /\ last.statusBefore = "JOINING")

(* C11: for every update event the hub dispatches, each port connected at   *)
(* that moment is posted exactly one session_state message and no other     *)
(* port is posted any; two connected ports are posted the same messages in  *)
(* the same order.                                                          *)
C11_EveryObserverGetsEveryUpdate ==
    /\ \A p \in Ports :
           CountType(posted[p], "session_state") =
               IF portState[p] = "connected" THEN last.updates ELSE 0
    /\ \A p, q \in Ports :
           (portState[p] = "connected" /\ portState[q] = "connected") =>
               posted[p] = posted[q]

C11_Witness ==
    /\ last.updates = 1
    /\ \E p, q \in Ports :
           /\ p # q
           /\ portState[p] = "connected"
           /\ portState[q] = "connected"
           /\ posted[p] = posted[q]
           /\ CountType(posted[p], "session_state") = 1

(* C12: a port that has disconnected is subscribed to neither update nor    *)
(* error and is posted nothing by any later event; the ports that stay      *)
(* connected keep both subscriptions.                                       *)
C12_DisconnectUnsubscribes ==
    \A p \in Ports :
        /\ portState[p] = "disconnected" =>
               /\ p \notin updateListeners
               /\ p \notin errorListeners
               /\ posted[p] = <<>>
        /\ portState[p] = "connected" =>
               /\ p \in updateListeners
               /\ p \in errorListeners

C12_Witness ==
    /\ last.op = "onDisconnect"
    /\ portState[last.port] = "disconnected"
    /\ last.port \notin updateListeners \cup errorListeners
    /\ \E q \in Ports : q # last.port /\ q \in updateListeners \cap errorListeners

(* C13: once a change of the stored credentials has been written and its    *)
(* options_changed notification handled, no room operation is invoked on a  *)
(* Session that was built from other credentials.                           *)
C13_SettingsChangeReplacesSession ==
    (/\ last.invoked
     /\ writing = <<>>
     /\ notices = 0
     /\ ~OptionsIncomplete(storage)) =>
        sessOptions[last.invokedOn] = storage

(* What a peer serialized into the frame, as msgpack.decode reads it.       *)
Decoded(frame) == MsgpackDecode(frame.bytes)

MessageEvents == {i \in DOMAIN chanEvents : chanEvents[i].type = "message"}

ClosedEvents == {i \in DOMAIN chanEvents : chanEvents[i].type = "closed"}

(* C14: a frame whose decoded value the schema rejects (unknown tag, missing *)
(* required field, field of the wrong type, enum value out of its domain,   *)
(* no numeric t) dispatches no event at all and leaves isOpen as it was;    *)
(* and no message event ever carries a value the schema rejects.            *)
C14_DecodeFailsClosed ==
    /\ (/\ chanLast.op = "message"
        /\ chanLast.frame.wellFormed
        /\ ~MessageSchemaAccepts(Decoded(chanLast.frame))) =>
            /\ Len(chanEvents) = chanLast.lenBefore
            /\ isOpen = chanLast.openBefore
    /\ \A i \in MessageEvents : MessageSchemaAccepts(chanEvents[i].message)

C14_Witness ==
    /\ chanLast.op = "message"
    /\ chanLast.frame.data = "Uint8Array"
    /\ chanLast.frame.wellFormed
    /\ ~MessageSchemaAccepts(Decoded(chanLast.frame))
    /\ Decoded(chanLast.frame).m = "connection::closed/v1"
    /\ isOpen
    /\ chanLast.lenBefore >= 1

(* C15: every binary frame that is the encoding of a schema-valid Message   *)
(* makes the listener dispatch exactly one message event, carrying that     *)
(* Message, after all the events dispatched before it.                      *)
C15_ValidBinaryFrameDispatched ==
    (/\ chanLast.op = "message"
     /\ chanLast.frame.data \in BinaryKinds
     /\ chanLast.frame.wellFormed
     /\ MessageSchemaAccepts(Decoded(chanLast.frame))) =>
        /\ Len(chanEvents) = chanLast.lenBefore + 1
        /\ chanEvents[Len(chanEvents)] =
               MessageEvent(MessageSchemaParse(Decoded(chanLast.frame)))

SameBody(a, b) ==
    /\ a.m = b.m
    /\ a.username = b.username
    /\ a.api_key = b.api_key
    /\ a.reason = b.reason
    /\ a.message = b.message

(* C16: for every body send was given, decoding the bytes encodeMessage     *)
(* produced succeeds and gives back the body's tag and fields, plus t.      *)
C16_RoundTrip ==
    chanLast.op = "send" =>
        LET r == decodeMessage(chanLast.wire)
        IN  /\ r.ok
            /\ SameBody(r.message, chanLast.body)
            /\ IsNumber(r.message.t)

(* C17: when the transport throws inside send, send returns normally,       *)
(* nothing is written, and isOpen and the events dispatched are unchanged.  *)
C17_SendFireAndForget ==
    (chanLast.op = "send" /\ chanLast.threw) =>
        /\ ~chanLast.propagated
        /\ sent = chanLast.sentBefore
        /\ isOpen = chanLast.openBefore
        /\ Len(chanEvents) = chanLast.lenBefore

C17_Witness ==
    /\ chanLast.op = "send"
    /\ chanLast.threw
    /\ ws = "connecting"

(* C18: isOpen() is true exactly while no closed event has been dispatched; *)
(* the listeners of closed already read false; once false it stays false;   *)
(* close() by itself leaves it as it was.                                   *)
C18_IsOpenUntilClosed ==
    /\ isOpen <=> ClosedEvents = {}
    /\ chanLast.op \in {"error", "closeEvent"} => ~chanLast.openAtDispatch
    /\ ~chanLast.openBefore => ~isOpen
    /\ chanLast.op = "close" => isOpen = chanLast.openBefore

C18_Witness ==
    /\ chanLast.op = "closeEvent"
    /\ chanLast.openBefore
    /\ ~isOpen
    /\ ws = "closed"
    /\ MessageEvents # {}

(* C19: a create_room / join_room handler constructs a Session only when    *)
(* there is no current session at that moment, so no Session built on       *)
(* demand is replaced (and closed) by another handler's construction.       *)
C19_OneSessionPerBurst ==
    last.constructed # NoSession =>
        /\ last.sessionBefore = NoSession
        /\ last.closed = NoSession

(* C20: every Session the hub constructed that is not the current session   *)
(* pointer has had close called on it.                                      *)
C20_NonCurrentSessionsClosed ==
    \A s \in SessionIds :
        (s <= constructed /\ s # session) => closeCalls[s] >= 1

(* C21: options_changed reaches the hub only after the settings write has   *)
(* completed, so once the write and the notification are both done the      *)
(* settings the hub has cached are the ones in storage.                     *)
C21_CacheFreshAfterNotification ==
    (writing = <<>> /\ notices = 0 /\ cache # <<>>) => cache[1] = storage

(* C22: whenever the popup shows LOADING it later shows another state.      *)
C22_PopupLeavesLoading ==
    (popupState = "loading") ~> (popupState # "loading")

(* C23: once a field has been updated, every submit element is disabled     *)
(* exactly when computeCanSubmit() is false.                                *)
C23_DisabledIffCannotSubmit ==
    (\E f \in Fields : validationState[f].tracked) =>
        \A e \in SubmitElements :
            disabled[e] = ~computeCanSubmit(formMode, validationState)

====
